---------------------------- MODULE Spec2Model ----------------------------
(***************************************************************************)
(* The two color-set generators of the repository:                         *)
(*   src/create_color_sets.py        one appearance per colorset           *)
(*   src/create_dark_mode_colors.py  light and dark appearance             *)
(* Text that the code indexes or slices (the hex values) is a sequence of  *)
(* one-character strings; text that it only builds and compares is a       *)
(* string.  A call either returns a value or raises: Return(v), Raise(e).  *)
(***************************************************************************)
EXTENDS Integers, Sequences, FiniteSets, TLC

VARIABLES
  script,        \* the generator being executed (or executed last)
  pc,            \* its position: idle, makedirs, build, open, dump, print, done, aborted
  idx,           \* position of the loops in the (family, variant) pairs
  fs,            \* the file system: [dirs, files]
  json_content,  \* the local json_content of the loop body
  stdout,        \* the lines printed by the current execution
  exc,           \* the exception that ended the execution ("" when none)
  written,       \* history: the paths the current execution has written, in order
  prev,          \* history: how the execution before the current one ended
  limit,         \* how many pairs of the table the executions are followed over
  corrupt,       \* position of a mistyped table entry (0: the table as in the source)
  hex_color,     \* the text a direct call of a function is made on
  ret            \* what the direct call returned or raised

vars == <<script, pc, idx, fs, json_content, stdout, exc, written, prev,
          limit, corrupt, hex_color, ret>>

-----------------------------------------------------------------------------
(* Python values and built-ins used by the scripts *)

Return(v) == [exc |-> "", val |-> v]
Raise(e) == [exc |-> e]
Raised(x) == x.exc # ""

Min(a, b) == IF a < b THEN a ELSE b

\* s[a:b] for 0 <= a <= b: a slice never raises, it is cut to the text there is
Slice(s, a, b) == SubSeq(s, Min(a, Len(s)) + 1, Min(b, Len(s)))

RECURSIVE lstrip(_, _)
\* s.lstrip(c): every leading c is removed, not only the first
lstrip(s, c) == IF s # <<>> /\ Head(s) = c THEN lstrip(Tail(s), c) ELSE s

Whitespace == {" ", "\t", "\n", "\r"}

RECURSIVE StripLeft(_)
StripLeft(s) == IF s # <<>> /\ Head(s) \in Whitespace THEN StripLeft(Tail(s)) ELSE s

RECURSIVE StripRight(_)
StripRight(s) ==
  IF s # <<>> /\ s[Len(s)] \in Whitespace THEN StripRight(SubSeq(s, 1, Len(s) - 1)) ELSE s

UpperDigits == <<"0","1","2","3","4","5","6","7","8","9","A","B","C","D","E","F">>
LowerDigits == <<"0","1","2","3","4","5","6","7","8","9","a","b","c","d","e","f">>

IsHexDigit(c) == \E k \in 1..16 : UpperDigits[k] = c \/ LowerDigits[k] = c

DigitValue(c) == (CHOOSE k \in 1..16 : UpperDigits[k] = c \/ LowerDigits[k] = c) - 1

\* the digits of a literal: underscores may only stand between two digits
DigitsOK(d) ==
  /\ d # <<>>
  /\ \A k \in 1..Len(d) :
       \/ IsHexDigit(d[k])
       \/ /\ d[k] = "_"
          /\ 1 < k /\ k < Len(d)
          /\ IsHexDigit(d[k - 1]) /\ IsHexDigit(d[k + 1])

RECURSIVE DigitsValue(_, _)
DigitsValue(d, acc) ==
  IF d = <<>> THEN acc
  ELSE IF Head(d) = "_" THEN DigitsValue(Tail(d), acc)
  ELSE DigitsValue(Tail(d), 16 * acc + DigitValue(Head(d)))

\* int(text, 16), in the order the interpreter reads the text: surrounding
\* whitespace, a sign, a 0x prefix (and one underscore after it), the digits.
\* Anything else, the empty text included, is a ValueError.  (The digits of
\* other alphabets, which int() reads as well, are left out.)
ParseDigits(digits, negative) ==
  IF ~DigitsOK(digits) THEN Raise("ValueError")
  ELSE Return(IF negative THEN 0 - DigitsValue(digits, 0) ELSE DigitsValue(digits, 0))

AfterPrefix(d) == IF d # <<>> /\ Head(d) = "_" THEN Tail(d) ELSE d

ParsePrefixed(body, negative) ==
  IF Len(body) >= 2 /\ body[1] = "0" /\ body[2] \in {"x", "X"}
  THEN ParseDigits(AfterPrefix(SubSeq(body, 3, Len(body))), negative)
  ELSE ParseDigits(body, negative)

ParseSigned(t) ==
  IF t # <<>> /\ Head(t) \in {"+", "-"}
  THEN ParsePrefixed(Tail(t), Head(t) = "-")
  ELSE ParsePrefixed(t, FALSE)

int16(text) == ParseSigned(StripRight(StripLeft(text)))

RECURSIVE HexUpper(_)
\* the uppercase hexadecimal digits of n >= 0
HexUpper(n) == IF n < 16 THEN UpperDigits[n + 1]
               ELSE HexUpper(n \div 16) \o UpperDigits[(n % 16) + 1]

\* format(n, "02X"): uppercase hexadecimal, zero-padded after the sign to width 2
\* Mutant: the format is "X", without the width and the zero fill
ZeroPadNot(sign, digits) == sign \o digits

ZeroPad(sign, digits) ==
  IF Len(sign) + Len(digits) < 2 THEN sign \o "0" \o digits ELSE sign \o digits

Format02X(n) == IF n < 0 THEN ZeroPad("-", HexUpper(0 - n)) ELSE ZeroPad("", HexUpper(n))

-----------------------------------------------------------------------------
(* The functions of the scripts *)

\* r, g, b = ...; return r, g, b: the first int() that raises ends the call
ReturnTriple(r, g, b) ==
  IF Raised(r) THEN r
  ELSE IF Raised(g) THEN g
  ELSE IF Raised(b) THEN b
  ELSE Return([r |-> r.val, g |-> g.val, b |-> b.val])

Decode(h) == ReturnTriple(int16(Slice(h, 0, 2)), int16(Slice(h, 2, 4)), int16(Slice(h, 4, 6)))

hex_to_rgb(hex) == Decode(lstrip(hex, "#"))

\* Mutant: alpha is taken from the input, opaque unless the color is black
ColorOfAlpha(rgb) ==
  [colorspace |-> "srgb",
   components |-> [alpha |-> IF rgb.r + rgb.g + rgb.b = 0 THEN "0.000" ELSE "1.000",
                   blue  |-> "0x" \o Format02X(rgb.b),
                   green |-> "0x" \o Format02X(rgb.g),
                   red   |-> "0x" \o Format02X(rgb.r)]]

\* the "color" member both scripts build from a decoded triple
ColorOf(rgb) ==
  [colorspace |-> "srgb",
   components |-> [alpha |-> "1.000",
                   blue  |-> "0x" \o Format02X(rgb.b),
                   green |-> "0x" \o Format02X(rgb.g),
                   red   |-> "0x" \o Format02X(rgb.r)]]

InfoBlock == [author |-> "xcode", version |-> 1]

LightEntry(rgb) == [color |-> ColorOf(rgb), idiom |-> "universal"]

DarkEntry(rgb) ==
  [appearances |-> << [appearance |-> "luminosity", value |-> "dark"] >>,
   color |-> ColorOf(rgb),
   idiom |-> "universal"]

\* Mutant: the one-appearance document carries a dark entry as well
DocumentTwo(rgb) ==
  IF Raised(rgb) THEN rgb
  ELSE Return([colors |-> << LightEntry(rgb.val), DarkEntry(rgb.val) >>, info |-> InfoBlock])

\* the dict returned by create_color_set_json of create_color_sets.py
Document(rgb) ==
  IF Raised(rgb) THEN rgb
  ELSE Return([colors |-> << LightEntry(rgb.val) >>, info |-> InfoBlock])

\* create_color_set_json of create_color_sets.py
create_color_set_json(color_name, hex_value) == Document(hex_to_rgb(hex_value))

\* Mutant: the dark entry is filled from the light triple
DocumentDmLightTwice(light, dark) ==
  IF Raised(light) THEN light
  ELSE IF Raised(dark) THEN dark
  ELSE Return([colors |-> << LightEntry(light.val), DarkEntry(light.val) >>,
               info |-> InfoBlock])

\* the dict returned by create_color_set_json of create_dark_mode_colors.py;
\* the light value is decoded first
DocumentDm(light, dark) ==
  IF Raised(light) THEN light
  ELSE IF Raised(dark) THEN dark
  ELSE Return([colors |-> << LightEntry(light.val), DarkEntry(dark.val) >>,
               info |-> InfoBlock])

\* create_color_set_json of create_dark_mode_colors.py
create_color_set_json_dm(color_name, light_hex, dark_hex) ==
  DocumentDm(hex_to_rgb(light_hex), hex_to_rgb(dark_hex))

-----------------------------------------------------------------------------
(* json.dump(json_content, f, indent=2): the text written, line by line.    *)
(* A dict is written in the order its literal gives the keys.                *)

RECURSIVE IntText(_)
IntText(n) == IF n < 10 THEN UpperDigits[n + 1]
              ELSE IntText(n \div 10) \o UpperDigits[(n % 10) + 1]

Quoted(s) == "\"" \o s \o "\""

DumpColor(c, ind) ==
  << ind \o "\"color\": {",
     ind \o "  \"color-space\": " \o Quoted(c.colorspace) \o ",",
     ind \o "  \"components\": {",
     ind \o "    \"alpha\": " \o Quoted(c.components.alpha) \o ",",
     ind \o "    \"blue\": " \o Quoted(c.components.blue) \o ",",
     ind \o "    \"green\": " \o Quoted(c.components.green) \o ",",
     ind \o "    \"red\": " \o Quoted(c.components.red),
     ind \o "  }",
     ind \o "}," >>

DumpAppearances(a, ind) ==
  << ind \o "\"appearances\": [",
     ind \o "  {",
     ind \o "    \"appearance\": " \o Quoted(a[1].appearance) \o ",",
     ind \o "    \"value\": " \o Quoted(a[1].value),
     ind \o "  }",
     ind \o "]," >>

DumpEntry(e, last) ==
  << "    {" >>
  \o (IF "appearances" \in DOMAIN e THEN DumpAppearances(e.appearances, "      ") ELSE << >>)
  \o DumpColor(e.color, "      ")
  \o << "      \"idiom\": " \o Quoted(e.idiom),
        IF last THEN "    }" ELSE "    }," >>

RECURSIVE DumpEntries(_, _)
DumpEntries(es, k) ==
  IF k > Len(es) THEN << >>
  ELSE DumpEntry(es[k], k = Len(es)) \o DumpEntries(es, k + 1)

json_dump(doc) ==
  << "{", "  \"colors\": [" >>
  \o DumpEntries(doc.colors, 1)
  \o << "  ],",
        "  \"info\": {",
        "    \"author\": " \o Quoted(doc.info.author) \o ",",
        "    \"version\": " \o IntText(doc.info.version),
        "  }",
        "}" >>

-----------------------------------------------------------------------------
(* The embedded color tables, in the order of their literals *)

\* colors of create_color_sets.py
colors ==
  <<
    [family |-> "Yellow", variants |-> <<
      [name |-> "yellow50", value |-> <<"#","F","E","F","6","E","6">>],
      [name |-> "yellow100", value |-> <<"#","F","C","E","2","B","0">>],
      [name |-> "yellow200", value |-> <<"#","F","A","D","5","8","A">>],
      [name |-> "yellow300", value |-> <<"#","F","8","C","1","5","4">>],
      [name |-> "yellow400", value |-> <<"#","F","7","B","5","3","3">>],
      [name |-> "yellow500", value |-> <<"#","F","5","A","3","0","0">>],
      [name |-> "yellow600", value |-> <<"#","D","F","9","4","0","0">>],
      [name |-> "yellow700", value |-> <<"#","A","E","7","4","0","0">>],
      [name |-> "yellow800", value |-> <<"#","8","7","5","A","0","0">>],
      [name |-> "yellow900", value |-> <<"#","6","7","4","4","0","0">>] >>],
    [family |-> "Green", variants |-> <<
      [name |-> "green50", value |-> <<"#","E","B","F","9","E","E">>],
      [name |-> "green100", value |-> <<"#","C","0","E","E","C","C">>],
      [name |-> "green200", value |-> <<"#","A","2","E","5","B","3">>],
      [name |-> "green300", value |-> <<"#","7","7","D","9","9","0">>],
      [name |-> "green400", value |-> <<"#","5","D","D","2","7","A">>],
      [name |-> "green500", value |-> <<"#","3","4","C","7","5","9">>],
      [name |-> "green600", value |-> <<"#","2","F","B","5","5","1">>],
      [name |-> "green700", value |-> <<"#","2","5","8","D","3","F">>],
      [name |-> "green800", value |-> <<"#","1","D","6","D","3","1">>],
      [name |-> "green900", value |-> <<"#","1","6","5","4","2","5">>] >>],
    [family |-> "Red", variants |-> <<
      [name |-> "red50", value |-> <<"#","F","C","E","B","E","E">>],
      [name |-> "red100", value |-> <<"#","F","7","C","0","C","9">>],
      [name |-> "red200", value |-> <<"#","F","3","A","2","A","F">>],
      [name |-> "red300", value |-> <<"#","E","E","7","7","8","A">>],
      [name |-> "red400", value |-> <<"#","E","A","5","D","7","4">>],
      [name |-> "red500", value |-> <<"#","E","5","3","4","5","1">>],
      [name |-> "red600", value |-> <<"#","D","0","2","F","4","A">>],
      [name |-> "red700", value |-> <<"#","A","3","2","5","3","A">>],
      [name |-> "red800", value |-> <<"#","7","E","1","D","2","D">>],
      [name |-> "red900", value |-> <<"#","6","0","1","6","2","2">>] >>],
    [family |-> "Navy", variants |-> <<
      [name |-> "navy50", value |-> <<"#","E","8","E","9","E","D">>],
      [name |-> "navy100", value |-> <<"#","B","9","B","C","C","8">>],
      [name |-> "navy200", value |-> <<"#","9","7","9","C","A","D">>],
      [name |-> "navy300", value |-> <<"#","6","7","6","E","8","7">>],
      [name |-> "navy400", value |-> <<"#","4","9","5","2","7","0">>],
      [name |-> "navy500", value |-> <<"#","1","C","2","7","4","C">>],
      [name |-> "navy600", value |-> <<"#","1","9","2","3","4","5">>],
      [name |-> "navy700", value |-> <<"#","1","4","1","C","3","6">>],
      [name |-> "navy800", value |-> <<"#","0","F","1","5","2","A">>],
      [name |-> "navy900", value |-> <<"#","0","C","1","0","2","0">>] >>],
    [family |-> "PastelBlue", variants |-> <<
      [name |-> "pastelBlue50", value |-> <<"#","F","4","F","6","F","F">>],
      [name |-> "pastelBlue100", value |-> <<"#","E","D","F","1","F","F">>],
      [name |-> "pastelBlue300", value |-> <<"#","B","3","C","4","F","F">>],
      [name |-> "pastelBlue400", value |-> <<"#","A","4","B","9","F","F">>],
      [name |-> "pastelBlue500", value |-> <<"#","8","D","A","7","F","F">>],
      [name |-> "pastelBlue600", value |-> <<"#","8","0","9","8","E","8">>],
      [name |-> "pastelBlue700", value |-> <<"#","6","4","7","7","B","5">>],
      [name |-> "pastelBlue800", value |-> <<"#","4","E","5","C","8","C">>],
      [name |-> "pastelBlue900", value |-> <<"#","3","B","4","6","6","B">>] >>],
    [family |-> "Grey", variants |-> <<
      [name |-> "grey50", value |-> <<"#","F","9","F","9","F","9">>],
      [name |-> "grey100", value |-> <<"#","E","C","E","C","E","F">>],
      [name |-> "grey200", value |-> <<"#","E","3","E","3","E","7">>],
      [name |-> "grey300", value |-> <<"#","D","7","D","7","D","C">>],
      [name |-> "grey400", value |-> <<"#","C","F","C","F","D","5">>],
      [name |-> "grey500", value |-> <<"#","C","3","C","3","C","B">>],
      [name |-> "grey600", value |-> <<"#","B","1","B","1","B","9">>],
      [name |-> "grey700", value |-> <<"#","8","A","8","A","9","0">>],
      [name |-> "grey800", value |-> <<"#","6","B","6","B","7","0">>],
      [name |-> "grey900", value |-> <<"#","5","2","5","2","5","5">>],
      [name |-> "greyBlack", value |-> <<"#","1","9","1","9","1","9">>],
      [name |-> "greyWhite", value |-> <<"#","F","F","F","F","F","F">>] >>]
  >>

\* colors of create_dark_mode_colors.py
colors_dm ==
  <<
    [family |-> "Yellow", variants |-> <<
      [name |-> "yellow50", value |-> [light |-> <<"#","F","E","F","6","E","6">>, dark |-> <<"#","F","E","F","6","E","6">>]],
      [name |-> "yellow100", value |-> [light |-> <<"#","F","C","E","2","B","0">>, dark |-> <<"#","F","C","E","2","B","0">>]],
      [name |-> "yellow200", value |-> [light |-> <<"#","F","A","D","5","8","A">>, dark |-> <<"#","F","A","D","5","8","A">>]],
      [name |-> "yellow300", value |-> [light |-> <<"#","F","8","C","1","5","4">>, dark |-> <<"#","F","8","C","1","5","4">>]],
      [name |-> "yellow400", value |-> [light |-> <<"#","F","7","B","5","3","3">>, dark |-> <<"#","F","7","B","5","3","3">>]],
      [name |-> "yellow500", value |-> [light |-> <<"#","F","5","A","3","0","0">>, dark |-> <<"#","F","5","A","3","0","0">>]],
      [name |-> "yellow600", value |-> [light |-> <<"#","D","F","9","4","0","0">>, dark |-> <<"#","D","F","9","4","0","0">>]],
      [name |-> "yellow700", value |-> [light |-> <<"#","A","E","7","4","0","0">>, dark |-> <<"#","A","E","7","4","0","0">>]],
      [name |-> "yellow800", value |-> [light |-> <<"#","8","7","5","A","0","0">>, dark |-> <<"#","8","7","5","A","0","0">>]],
      [name |-> "yellow900", value |-> [light |-> <<"#","6","7","4","4","0","0">>, dark |-> <<"#","6","7","4","4","0","0">>]] >>],
    [family |-> "Green", variants |-> <<
      [name |-> "green50", value |-> [light |-> <<"#","E","B","F","9","E","E">>, dark |-> <<"#","E","B","F","9","E","E">>]],
      [name |-> "green100", value |-> [light |-> <<"#","C","0","E","E","C","C">>, dark |-> <<"#","C","0","E","E","C","C">>]],
      [name |-> "green200", value |-> [light |-> <<"#","A","2","E","5","B","3">>, dark |-> <<"#","A","2","E","5","B","3">>]],
      [name |-> "green300", value |-> [light |-> <<"#","7","7","D","9","9","0">>, dark |-> <<"#","7","7","D","9","9","0">>]],
      [name |-> "green400", value |-> [light |-> <<"#","5","D","D","2","7","A">>, dark |-> <<"#","5","D","D","2","7","A">>]],
      [name |-> "green500", value |-> [light |-> <<"#","3","4","C","7","5","9">>, dark |-> <<"#","3","4","C","7","5","9">>]],
      [name |-> "green600", value |-> [light |-> <<"#","2","F","B","5","5","1">>, dark |-> <<"#","2","F","B","5","5","1">>]],
      [name |-> "green700", value |-> [light |-> <<"#","2","5","8","D","3","F">>, dark |-> <<"#","2","5","8","D","3","F">>]],
      [name |-> "green800", value |-> [light |-> <<"#","1","D","6","D","3","1">>, dark |-> <<"#","1","D","6","D","3","1">>]],
      [name |-> "green900", value |-> [light |-> <<"#","1","6","5","4","2","5">>, dark |-> <<"#","1","6","5","4","2","5">>]] >>],
    [family |-> "Red", variants |-> <<
      [name |-> "red50", value |-> [light |-> <<"#","F","C","E","B","E","E">>, dark |-> <<"#","F","C","E","B","E","E">>]],
      [name |-> "red100", value |-> [light |-> <<"#","F","7","C","0","C","9">>, dark |-> <<"#","F","7","C","0","C","9">>]],
      [name |-> "red200", value |-> [light |-> <<"#","F","3","A","2","A","F">>, dark |-> <<"#","F","3","A","2","A","F">>]],
      [name |-> "red300", value |-> [light |-> <<"#","E","E","7","7","8","A">>, dark |-> <<"#","E","E","7","7","8","A">>]],
      [name |-> "red400", value |-> [light |-> <<"#","E","A","5","D","7","4">>, dark |-> <<"#","E","A","5","D","7","4">>]],
      [name |-> "red500", value |-> [light |-> <<"#","E","5","3","4","5","1">>, dark |-> <<"#","E","5","3","4","5","1">>]],
      [name |-> "red600", value |-> [light |-> <<"#","D","0","2","F","4","A">>, dark |-> <<"#","D","0","2","F","4","A">>]],
      [name |-> "red700", value |-> [light |-> <<"#","A","3","2","5","3","A">>, dark |-> <<"#","A","3","2","5","3","A">>]],
      [name |-> "red800", value |-> [light |-> <<"#","7","E","1","D","2","D">>, dark |-> <<"#","7","E","1","D","2","D">>]],
      [name |-> "red900", value |-> [light |-> <<"#","6","0","1","6","2","2">>, dark |-> <<"#","6","0","1","6","2","2">>]] >>],
    [family |-> "Navy", variants |-> <<
      [name |-> "navy50", value |-> [light |-> <<"#","E","8","E","9","E","D">>, dark |-> <<"#","E","8","E","9","E","D">>]],
      [name |-> "navy100", value |-> [light |-> <<"#","B","9","B","C","C","8">>, dark |-> <<"#","B","9","B","C","C","8">>]],
      [name |-> "navy200", value |-> [light |-> <<"#","9","7","9","C","A","D">>, dark |-> <<"#","9","7","9","C","A","D">>]],
      [name |-> "navy300", value |-> [light |-> <<"#","6","7","6","E","8","7">>, dark |-> <<"#","6","7","6","E","8","7">>]],
      [name |-> "navy400", value |-> [light |-> <<"#","4","9","5","2","7","0">>, dark |-> <<"#","4","9","5","2","7","0">>]],
      [name |-> "navy500", value |-> [light |-> <<"#","1","C","2","7","4","C">>, dark |-> <<"#","1","C","2","7","4","C">>]],
      [name |-> "navy600", value |-> [light |-> <<"#","1","9","2","3","4","5">>, dark |-> <<"#","1","9","2","3","4","5">>]],
      [name |-> "navy700", value |-> [light |-> <<"#","1","4","1","C","3","6">>, dark |-> <<"#","1","4","1","C","3","6">>]],
      [name |-> "navy800", value |-> [light |-> <<"#","0","F","1","5","2","A">>, dark |-> <<"#","0","F","1","5","2","A">>]],
      [name |-> "navy900", value |-> [light |-> <<"#","0","C","1","0","2","0">>, dark |-> <<"#","0","C","1","0","2","0">>]] >>],
    [family |-> "PastelBlue", variants |-> <<
      [name |-> "pastelBlue50", value |-> [light |-> <<"#","F","4","F","6","F","F">>, dark |-> <<"#","F","4","F","6","F","F">>]],
      [name |-> "pastelBlue100", value |-> [light |-> <<"#","E","D","F","1","F","F">>, dark |-> <<"#","E","D","F","1","F","F">>]],
      [name |-> "pastelBlue300", value |-> [light |-> <<"#","B","3","C","4","F","F">>, dark |-> <<"#","B","3","C","4","F","F">>]],
      [name |-> "pastelBlue400", value |-> [light |-> <<"#","A","4","B","9","F","F">>, dark |-> <<"#","A","4","B","9","F","F">>]],
      [name |-> "pastelBlue500", value |-> [light |-> <<"#","8","D","A","7","F","F">>, dark |-> <<"#","8","D","A","7","F","F">>]],
      [name |-> "pastelBlue600", value |-> [light |-> <<"#","8","0","9","8","E","8">>, dark |-> <<"#","8","0","9","8","E","8">>]],
      [name |-> "pastelBlue700", value |-> [light |-> <<"#","6","4","7","7","B","5">>, dark |-> <<"#","6","4","7","7","B","5">>]],
      [name |-> "pastelBlue800", value |-> [light |-> <<"#","4","E","5","C","8","C">>, dark |-> <<"#","4","E","5","C","8","C">>]],
      [name |-> "pastelBlue900", value |-> [light |-> <<"#","3","B","4","6","6","B">>, dark |-> <<"#","3","B","4","6","6","B">>]] >>],
    [family |-> "Grey", variants |-> <<
      [name |-> "grey50", value |-> [light |-> <<"#","F","9","F","9","F","9">>, dark |-> <<"#","F","9","F","9","F","9">>]],
      [name |-> "grey100", value |-> [light |-> <<"#","E","C","E","C","E","F">>, dark |-> <<"#","E","C","E","C","E","F">>]],
      [name |-> "grey200", value |-> [light |-> <<"#","E","3","E","3","E","7">>, dark |-> <<"#","E","3","E","3","E","7">>]],
      [name |-> "grey300", value |-> [light |-> <<"#","D","7","D","7","D","C">>, dark |-> <<"#","D","7","D","7","D","C">>]],
      [name |-> "grey400", value |-> [light |-> <<"#","C","F","C","F","D","5">>, dark |-> <<"#","C","F","C","F","D","5">>]],
      [name |-> "grey500", value |-> [light |-> <<"#","C","3","C","3","C","B">>, dark |-> <<"#","C","3","C","3","C","B">>]],
      [name |-> "grey600", value |-> [light |-> <<"#","B","1","B","1","B","9">>, dark |-> <<"#","B","1","B","1","B","9">>]],
      [name |-> "grey700", value |-> [light |-> <<"#","8","A","8","A","9","0">>, dark |-> <<"#","8","A","8","A","9","0">>]],
      [name |-> "grey800", value |-> [light |-> <<"#","6","B","6","B","7","0">>, dark |-> <<"#","6","B","6","B","7","0">>]],
      [name |-> "grey900", value |-> [light |-> <<"#","5","2","5","2","5","5">>, dark |-> <<"#","5","2","5","2","5","5">>]],
      [name |-> "greyBlack", value |-> [light |-> <<"#","1","9","1","9","1","9">>, dark |-> <<"#","1","9","1","9","1","9">>]],
      [name |-> "greyWhite", value |-> [light |-> <<"#","F","F","F","F","F","F">>, dark |-> <<"#","F","F","F","F","F","F">>]] >>]
  >>

-----------------------------------------------------------------------------
(* Bounds of the model *)

\* where a step of an execution may fail, the loops are followed over the
\* first MaxVariants (family, variant) pairs
MaxVariants == 3
\* a failing write leaves at most this many lines of the new text in the file
MaxPartial == 1
\* direct calls take every text over Alphabet of at most this length
MaxLen == 7

-----------------------------------------------------------------------------
(* The write loops *)

Scripts == {"create_color_sets", "create_dark_mode_colors"}

base_path == "Assets/Colors.xcassets"

TableOf(s) == IF s = "create_color_sets" THEN colors ELSE colors_dm

RECURSIVE Flatten(_, _)
\* for color_family, color_variants in colors.items():
\*     for color_name, value in color_variants.items():
Flatten(table, f) ==
  IF f > Len(table) THEN << >>
  ELSE [k \in 1..Len(table[f].variants) |->
          [family |-> table[f].family,
           name |-> table[f].variants[k].name,
           value |-> table[f].variants[k].value]]
       \o Flatten(table, f + 1)

AllItems(s) == Flatten(TableOf(s), 1)

\* a table entry whose hex value was mistyped: a letter that is no hex digit
Mistyped(hex) == [hex EXCEPT ![2] = "G"]

MistypedValue(s, v) ==
  IF s = "create_color_sets" THEN Mistyped(v) ELSE [v EXCEPT !.dark = Mistyped(v.dark)]

\* the pairs an execution of s goes through when entry c of the table is mistyped
FirstItems(all) == SubSeq(all, 1, Min(limit, Len(all)))

MistypeAt(s, items, c) ==
  [k \in 1..Len(items) |->
     IF k = c THEN [items[k] EXCEPT !.value = MistypedValue(s, items[k].value)]
     ELSE items[k]]

ItemsWith(s, c) == MistypeAt(s, FirstItems(AllItems(s)), c)

Items == ItemsWith(script, corrupt)

\* color_dir = f"{base_path}/{color_name}.colorset"
ColorDir(color_name) == base_path \o "/" \o color_name \o ".colorset"

ContentsPath(color_name) == ColorDir(color_name) \o "/Contents.json"

\* Mutant: create_dark_mode_colors.py builds the one-appearance document too
BuildDocumentSingle(s, item) ==
  create_color_set_json(item.name,
                        IF s = "create_color_sets" THEN item.value ELSE item.value.light)

\* json_content = create_color_set_json(...) of the script being executed
BuildDocument(s, item) ==
  IF s = "create_color_sets"
  THEN create_color_set_json(item.name, item.value)
  ELSE create_color_set_json_dm(item.name, item.value.light, item.value.dark)

ProgressLine(s, color_name) ==
  IF s = "create_color_sets"
  THEN "Created " \o ContentsPath(color_name)
  ELSE "Created " \o ContentsPath(color_name) \o " (light + dark mode)"

CompletionLine(s) ==
  IF s = "create_color_sets"
  THEN "All color sets created successfully!"
  ELSE "All color sets with dark mode support created successfully!"

None == [none |-> TRUE]
NoRun == [script |-> "", outcome |-> "", exc |-> "", files |-> << >>]

EmptyFS == [dirs |-> {}, files |-> << >>]

\* f with the content of path p set to c
WithFile(f, p, c) == [q \in (DOMAIN f) \cup {p} |-> IF q = p THEN c ELSE f[q]]

\* file systems an execution may start from: nothing there, an older catalog
\* with a stale file for the first variant, a catalog holding another colorset
InitialFS ==
  LET first == AllItems("create_color_sets")[1].name
  IN  { EmptyFS,
        [dirs |-> {"Assets", base_path, ColorDir(first)},
         files |-> WithFile(<< >>, ContentsPath(first), << "{", "  \"stale\": true", "}" >>)],
        [dirs |-> {"Assets", base_path, ColorDir("AccentColor")},
         files |-> WithFile(<< >>, ContentsPath("AccentColor"), << "{}" >>)] }

Running == pc \in {"makedirs", "build", "open", "dump", "print", "finish"}

unchangedCalls == UNCHANGED <<hex_color, ret>>

\* Mutant: the exception is caught in the loop body, which goes on
AbortCaught(e) ==
  /\ pc' = "print"
  /\ exc' = e

\* an exception nothing catches: the interpreter ends the execution
Abort(e) ==
  /\ pc' = "aborted"
  /\ exc' = e

\* python3 <script>: the module is executed from its first line
Start(s) ==
  /\ ~Running
  /\ script' = s
  /\ pc' = IF Len(ItemsWith(s, corrupt)) = 0 THEN "finish" ELSE "makedirs"
  /\ idx' = 1
  /\ json_content' = None
  /\ stdout' = << >>
  /\ exc' = ""
  /\ written' = << >>
  /\ prev' = IF pc = "idle" THEN NoRun
             ELSE [script |-> script, outcome |-> pc, exc |-> exc,
                   files |-> IF pc = "done" THEN fs.files ELSE << >>]
  /\ UNCHANGED <<fs, limit, corrupt>>
  /\ unchangedCalls

\* os.makedirs(color_dir, exist_ok=True): the directory and its missing parents
Makedirs ==
  /\ pc = "makedirs"
  /\ fs' = [fs EXCEPT !.dirs = @ \cup {"Assets", base_path, ColorDir(Items[idx].name)}]
  /\ pc' = "build"
  /\ UNCHANGED <<script, idx, json_content, stdout, exc, written, prev, limit, corrupt>>
  /\ unchangedCalls

\* os.makedirs raises (permission denied, read-only or full volume)
MakedirsFails ==
  /\ pc = "makedirs"
  /\ Abort("OSError")
  /\ UNCHANGED <<script, idx, fs, json_content, stdout, written, prev, limit, corrupt>>
  /\ unchangedCalls

\* json_content = create_color_set_json(...); an exception of the call is not caught
Assign(doc) ==
  IF Raised(doc)
  THEN Abort(doc.exc) /\ UNCHANGED json_content
  ELSE pc' = "open" /\ json_content' = doc.val /\ UNCHANGED exc

Build ==
  /\ pc = "build"
  /\ Assign(BuildDocument(script, Items[idx]))
  /\ UNCHANGED <<script, idx, fs, stdout, written, prev, limit, corrupt>>
  /\ unchangedCalls

\* open(f"{color_dir}/Contents.json", "w"): the file is created or cut to nothing
\* Mutant: the file is opened in mode "a", which keeps what it held
TruncateNot(path) ==
  fs' = [fs EXCEPT !.files = IF path \in DOMAIN @ THEN @ ELSE WithFile(@, path, << >>)]

\* mode "w": whatever the file held is gone once it is open
Truncate(path) == fs' = [fs EXCEPT !.files = WithFile(@, path, << >>)]

Open ==
  /\ pc = "open"
  /\ Truncate(ContentsPath(Items[idx].name))
  /\ pc' = "dump"
  /\ UNCHANGED <<script, idx, json_content, stdout, exc, written, prev, limit, corrupt>>
  /\ unchangedCalls

\* open raises (permission denied): the file is not touched
OpenFails ==
  /\ pc = "open"
  /\ Abort("OSError")
  /\ UNCHANGED <<script, idx, fs, json_content, stdout, written, prev, limit, corrupt>>
  /\ unchangedCalls

\* json.dump(json_content, f, indent=2) and the close of the with block
\* the text goes after what the file holds since it was opened
WriteAll(path) ==
  /\ fs' = [fs EXCEPT !.files = WithFile(@, path, @[path] \o json_dump(json_content))]
  /\ written' = Append(written, path)

Dump ==
  /\ pc = "dump"
  /\ WriteAll(ContentsPath(Items[idx].name))
  /\ pc' = "print"
  /\ UNCHANGED <<script, idx, json_content, stdout, exc, prev, limit, corrupt>>
  /\ unchangedCalls

\* the write raises (disk full, I/O error): what reached the file stays there
PartialWrites(text) == {SubSeq(text, 1, n) : n \in 0..Min(MaxPartial, Len(text) - 1)}

WritePart(path, part) ==
  fs' = [fs EXCEPT !.files = WithFile(@, path, @[path] \o part)]

DumpFails ==
  /\ pc = "dump"
  /\ \E part \in PartialWrites(json_dump(json_content)) :
       WritePart(ContentsPath(Items[idx].name), part)
  /\ Abort("OSError")
  /\ UNCHANGED <<script, idx, json_content, stdout, written, prev, limit, corrupt>>
  /\ unchangedCalls

\* Mutant: the loops stop one pair early
NextPcEarly(k, n) == IF k < n - 1 THEN "makedirs" ELSE "finish"

\* the loops go on while the table has a pair left
NextPc(k, n) == IF k < n THEN "makedirs" ELSE "finish"

\* print(f"Created ..."), then the next pair of the loops
PrintProgress ==
  /\ pc = "print"
  /\ stdout' = Append(stdout, ProgressLine(script, Items[idx].name))
  /\ idx' = idx + 1
  /\ pc' = NextPc(idx, Len(Items))
  /\ UNCHANGED <<script, fs, json_content, exc, written, prev, limit, corrupt>>
  /\ unchangedCalls

\* print("All color sets ... created successfully!") after the loops
Finish ==
  /\ pc = "finish"
  /\ stdout' = Append(stdout, CompletionLine(script))
  /\ pc' = "done"
  /\ UNCHANGED <<script, idx, fs, json_content, exc, written, prev, limit, corrupt>>
  /\ unchangedCalls

Run ==
  \/ \E s \in Scripts : Start(s)
  \/ Makedirs \/ MakedirsFails
  \/ Build
  \/ Open \/ OpenFails
  \/ Dump \/ DumpFails
  \/ PrintProgress
  \/ Finish

NoCall == [fn |-> "", args |-> << >>, out |-> None]

InitRun ==
  /\ script = "create_color_sets"
  /\ pc = "idle"
  /\ idx = 1
  /\ fs \in InitialFS
  /\ json_content = None
  /\ stdout = << >>
  /\ exc = ""
  /\ written = << >>
  /\ prev = NoRun

Init ==
  /\ InitRun
  /\ limit = MaxVariants
  /\ corrupt = 0
  /\ hex_color = << >> /\ ret = NoCall

Next == Run

\* the two generators as they are in the source
Spec == Init /\ [][Next]_vars

InitFull ==
  /\ InitRun
  /\ limit = Len(AllItems("create_color_sets"))
  /\ corrupt = 0
  /\ hex_color = << >> /\ ret = NoCall

NextFull ==
  \/ \E s \in Scripts : Start(s)
  \/ Makedirs
  \/ Build
  \/ Open
  \/ Dump
  \/ PrintProgress
  \/ Finish

\* the two generators over their whole tables, where no step fails
SpecFull == InitFull /\ [][NextFull]_vars

\* the developer corrects the mistyped entry between two executions
FixTable ==
  /\ ~Running
  /\ corrupt # 0
  /\ corrupt' = 0
  /\ UNCHANGED <<script, pc, idx, fs, json_content, stdout, exc, written, prev, limit>>
  /\ unchangedCalls

InitMistyped ==
  /\ InitRun
  /\ limit = MaxVariants
  /\ corrupt \in 0..MaxVariants
  /\ hex_color = << >> /\ ret = NoCall

NextMistyped == Run \/ FixTable

\* the generators with one entry of the table mistyped until it is corrected
SpecMistyped == InitMistyped /\ [][NextMistyped]_vars

-----------------------------------------------------------------------------
(* Direct calls of the functions, on texts the tables do not hold *)

\* a leading or misplaced "#", the two boundary digits, a lowercase digit
Alphabet == {"#", "0", "a", "F"}

Texts == UNION {[1..n -> Alphabet] : n \in 0..MaxLen}

\* the other argument of a call with two values: a value of the table, and a
\* value with a letter that is no digit
OtherTexts ==
  { colors[1].variants[1].value,
    <<"#","G","0","0","0","0","0">> }

unchangedRun ==
  UNCHANGED <<script, pc, idx, fs, json_content, stdout, exc, written, prev, limit, corrupt>>

\* one call is made on each text
Call(fn, args, out) ==
  /\ ret = NoCall
  /\ ret' = [fn |-> fn, args |-> args, out |-> out]
  /\ UNCHANGED hex_color
  /\ unchangedRun

CallHexToRgb == Call("hex_to_rgb", <<hex_color>>, hex_to_rgb(hex_color))

\* names the documents are asked for: the first and the last of the table
Names == {"yellow50", "greyWhite"}

CallCreate ==
  \E name \in Names :
    Call("create_color_set_json", <<name, hex_color>>,
         create_color_set_json(name, hex_color))

CallCreateDm ==
  \E other \in OtherTexts :
    \/ Call("create_color_set_json_dm", <<"yellow50", hex_color, other>>,
            create_color_set_json_dm("yellow50", hex_color, other))
    \/ Call("create_color_set_json_dm", <<"greyWhite", other, hex_color>>,
            create_color_set_json_dm("greyWhite", other, hex_color))

InitCalls ==
  /\ script = "create_color_sets" /\ pc = "idle" /\ idx = 1 /\ fs = EmptyFS
  /\ json_content = None /\ stdout = << >> /\ exc = "" /\ written = << >>
  /\ prev = NoRun /\ limit = MaxVariants /\ corrupt = 0
  /\ hex_color \in Texts
  /\ ret = NoCall

NextCalls == CallHexToRgb \/ CallCreate \/ CallCreateDm

\* the functions called on every text of the bounded set
SpecCalls == InitCalls /\ [][NextCalls]_vars
-----------------------------------------------------------------------------
(* What the claims speak of *)

HexChars ==
  {"0","1","2","3","4","5","6","7","8","9",
   "a","b","c","d","e","f","A","B","C","D","E","F"}

UpperOf(c) ==
  CASE c = "a" -> "A" [] c = "b" -> "B" [] c = "c" -> "C"
    [] c = "d" -> "D" [] c = "e" -> "E" [] c = "f" -> "F"
    [] OTHER -> c

\* the text after one optional leading "#"
StripOne(h) == IF h # << >> /\ Head(h) = "#" THEN Tail(h) ELSE h

\* a HexColor: exactly six hex digits after the optional "#"
ValidHex(h) == Len(StripOne(h)) = 6 /\ \A k \in 1..6 : StripOne(h)[k] \in HexChars

\* too short, or a character that is no hex digit among the first six
Malformed(h) ==
  \/ Len(StripOne(h)) < 6
  \/ \E k \in 1..Min(6, Len(StripOne(h))) : StripOne(h)[k] \notin HexChars

\* "0x" and the two digits of h at k, k+1 in uppercase
PairText(h, k) == "0x" \o UpperOf(h[k]) \o UpperOf(h[k + 1])

Returned(fn) == ret.fn = fn /\ ~Raised(ret.out)

Components(entry) == entry.color.components

DecodedComponents(hex) == ColorOf(hex_to_rgb(hex).val).components

\* the pairs of the table as the source gives them
SourceItems(s) == FirstItems(AllItems(s))

\* the text of the file of a pair, from the function of each script
DocumentText(s, item) ==
  IF s = "create_color_sets"
  THEN json_dump(create_color_set_json(item.name, item.value).val)
  ELSE json_dump(create_color_set_json_dm(item.name, item.value.light, item.value.dark).val)

PathsOf(items) == [k \in 1..Len(items) |-> ContentsPath(items[k].name)]

Completed == \E k \in 1..Len(stdout) : stdout[k] = CompletionLine(script)

\* the file at path p exists and holds text
Holds(p, text) == p \in DOMAIN fs.files /\ fs.files[p] = text

\* the texts the files held before the generators ran
StaleTexts == UNION {{f.files[p] : p \in DOMAIN f.files} : f \in InitialFS}

-----------------------------------------------------------------------------
(* C1. When an execution of a script completes right after a completed       *)
(* execution of the same script, the Contents.json files are the same files  *)
(* with the same text as after the first: the second changed nothing.        *)
C1_SecondRunSameFiles ==
  (pc = "done" /\ prev.outcome = "done" /\ prev.script = script) => fs.files = prev.files

\* a second dark-mode execution has rewritten every file and completed
C1_Witness ==
  /\ pc = "done" /\ prev.outcome = "done"
  /\ prev.script = script /\ script = "create_dark_mode_colors"
  /\ written = PathsOf(Items)

(* C2. hex_to_rgb raises for every text that, after one optional leading     *)
(* "#", is shorter than six characters or has a character that is no hex     *)
(* digit among its first six.                                                *)
C2_MalformedRejected ==
  (ret.fn = "hex_to_rgb" /\ Malformed(hex_color)) => Raised(ret.out)

(* C3. For a valid HexColor the decoded channels are in 0..255 and the       *)
(* components of the document are "0x" and the uppercased digit pairs of the *)
(* text: red from [0:2], green from [2:4], blue from [4:6].                  *)
C3_RoundTrip ==
  /\ (ret.fn = "hex_to_rgb" /\ ValidHex(hex_color)) =>
       /\ ~Raised(ret.out)
       /\ \A ch \in {ret.out.val.r, ret.out.val.g, ret.out.val.b} : ch \in 0..255
  /\ (ret.fn = "create_color_set_json" /\ ValidHex(hex_color)) =>
       /\ ~Raised(ret.out)
       /\ Components(ret.out.val.colors[1]).red = PairText(StripOne(hex_color), 1)
       /\ Components(ret.out.val.colors[1]).green = PairText(StripOne(hex_color), 3)
       /\ Components(ret.out.val.colors[1]).blue = PairText(StripOne(hex_color), 5)
       /\ StripOne(hex_color) = <<"0","0","0","0","0","0">> =>
            /\ Components(ret.out.val.colors[1]).red = "0x00"
            /\ Components(ret.out.val.colors[1]).green = "0x00"
            /\ Components(ret.out.val.colors[1]).blue = "0x00"
       /\ StripOne(hex_color) = <<"F","F","F","F","F","F">> =>
            /\ Components(ret.out.val.colors[1]).red = "0xFF"
            /\ Components(ret.out.val.colors[1]).green = "0xFF"
            /\ Components(ret.out.val.colors[1]).blue = "0xFF"

\* "#0aF0aF": a lowercase digit, a channel below 16, three different channels
C3_Witness ==
  /\ Returned("create_color_set_json")
  /\ hex_color = <<"#","0","a","F","0","a","F">>
  /\ Components(ret.out.val.colors[1]).red = "0x0A"
  /\ Components(ret.out.val.colors[1]).green = "0xF0"
  /\ Components(ret.out.val.colors[1]).blue = "0xAF"

(* C4. A document of create_dark_mode_colors.py has two entries, light then  *)
(* dark: the first without appearances and with the components of the light *)
(* value, the second with the luminosity/dark appearance and the components  *)
(* of the dark value; both universal and srgb.                               *)
C4_LightThenDark ==
  Returned("create_color_set_json_dm") =>
    LET cs == ret.out.val.colors
    IN  /\ Len(cs) = 2
        /\ DOMAIN cs[1] = {"color", "idiom"}
        /\ DOMAIN cs[2] = {"appearances", "color", "idiom"}
        /\ cs[2].appearances = << [appearance |-> "luminosity", value |-> "dark"] >>
        /\ Components(cs[1]) = DecodedComponents(ret.args[2])
        /\ Components(cs[2]) = DecodedComponents(ret.args[3])
        /\ \A k \in 1..2 : cs[k].idiom = "universal" /\ cs[k].color.colorspace = "srgb"

\* a document whose dark value decodes to other components than its light value
C4_Witness ==
  /\ Returned("create_color_set_json_dm")
  /\ ret.args[3] = hex_color
  /\ Components(ret.out.val.colors[2]).red = "0x0A"
  /\ Components(ret.out.val.colors[1]).red = "0xFE"

(* C5. A document of create_color_sets.py has one entry, without             *)
(* appearances, universal, srgb, with the components of the value.           *)
C5_OneEntry ==
  Returned("create_color_set_json") =>
    LET cs == ret.out.val.colors
    IN  /\ Len(cs) = 1
        /\ DOMAIN cs[1] = {"color", "idiom"}
        /\ cs[1].idiom = "universal"
        /\ cs[1].color.colorspace = "srgb"
        /\ Components(cs[1]) = DecodedComponents(ret.args[2])

\* the document of "#F0a0FF"
C5_Witness ==
  /\ Returned("create_color_set_json")
  /\ hex_color = <<"#","F","0","a","0","F","F">>
  /\ Len(ret.out.val.colors) = 1
  /\ Components(ret.out.val.colors[1]).green = "0xA0"

(* C6. In every document of either script alpha is "1.000" in every entry    *)
(* and info is author "xcode", version 1, whatever the name and the values.  *)
C6_AlphaAndInfo ==
  (Returned("create_color_set_json") \/ Returned("create_color_set_json_dm")) =>
    /\ \A k \in 1..Len(ret.out.val.colors) : Components(ret.out.val.colors[k]).alpha = "1.000"
    /\ ret.out.val.info = [author |-> "xcode", version |-> 1]

\* a two-entry document for black under the last name of the table
C6_Witness ==
  /\ Returned("create_color_set_json_dm")
  /\ ret.args[1] = "greyWhite"
  /\ hex_color = <<"0","0","0","0","0","0">>
  /\ Components(ret.out.val.colors[2]).alpha = "1.000"

(* C7. The paths an execution has written are always the first paths of the  *)
(* table, in its order.  The completion line is printed only by an execution *)
(* that is done, and then: every pair has its own file, written once, with   *)
(* the text of its own document; each pair has its directory and no family   *)
(* has one; there is one progress line per pair before the completion line.  *)
C7_OneFilePerVariantThenCompletion ==
  /\ Completed => pc = "done"
  /\ Len(written) <= Len(Items) /\ written = SubSeq(PathsOf(Items), 1, Len(written))
  /\ pc = "done" =>
       /\ written = PathsOf(Items)
       /\ Cardinality({written[k] : k \in 1..Len(written)}) = Len(Items)
       /\ Cardinality({AllItems(script)[k].name : k \in 1..Len(AllItems(script))})
            = Len(AllItems(script))
       /\ \A k \in 1..Len(Items) :
            /\ Holds(written[k], DocumentText(script, Items[k]))
            /\ ColorDir(Items[k].name) \in fs.dirs
            /\ ColorDir(Items[k].family) \notin fs.dirs
            /\ stdout[k] = ProgressLine(script, Items[k].name)
       /\ stdout[Len(stdout)] = CompletionLine(script)
       /\ Len(stdout) = Len(Items) + 1

\* create_color_sets.py is done with all its pairs
C7_Witness ==
  /\ pc = "done" /\ script = "create_color_sets"
  /\ Len(written) = Len(AllItems(script))
  /\ Completed

\* an execution that an exception ended: what it has left behind
C8_AbortedState ==
  pc = "aborted" =>
    /\ exc \in {"OSError", "ValueError"}
    /\ ~Completed
    /\ Len(written) = idx - 1 /\ Len(stdout) = idx - 1
    /\ written = SubSeq(PathsOf(Items), 1, idx - 1)
    /\ \A k \in 1..(idx - 1) : Holds(written[k], DocumentText(script, Items[k]))

\* an execution that is done: the text of the source table in every file
C8_DoneState ==
  pc = "done" =>
    \A k \in 1..Len(SourceItems(script)) :
      Holds(ContentsPath(SourceItems(script)[k].name),
            DocumentText(script, SourceItems(script)[k]))

\* from an aborted execution the only way on is a new one, from the first pair
C8_NoResume ==
  pc = "aborted" =>
    \/ pc' = "aborted" /\ UNCHANGED <<fs, idx, written, stdout, exc>>
    \/ /\ pc' \in {"makedirs", "finish"}
       /\ idx' = 1 /\ written' = << >> /\ stdout' = << >> /\ exc' = ""
       /\ UNCHANGED fs

C9_NoPartialFile ==
  \A s \in Scripts : \A k \in 1..Len(SourceItems(s)) :
    LET p == ContentsPath(SourceItems(s)[k].name)
    IN  (p \in DOMAIN fs.files /\ ~(pc = "dump" /\ idx = k)) =>
          fs.files[p] \in {DocumentText(t, SourceItems(t)[k]) : t \in Scripts} \cup StaleTexts

\* the two tables, entry by entry, and the documents built from them
SameTables ==
  LET L == AllItems("create_color_sets")
      D == AllItems("create_dark_mode_colors")
  IN  /\ Len(L) = Len(D)
      /\ \A k \in 1..Len(L) :
           /\ L[k].name = D[k].name
           /\ ContentsPath(L[k].name) = ContentsPath(D[k].name)
           /\ create_color_set_json_dm(D[k].name, D[k].value.light, D[k].value.dark).val.colors[1]
                = create_color_set_json(L[k].name, L[k].value).val.colors[1]
           /\ Components(create_color_set_json_dm(D[k].name, D[k].value.light,
                                                  D[k].value.dark).val.colors[2])
                = Components(create_color_set_json(L[k].name, L[k].value).val.colors[1])

(* C10. The tables give the same names in the same order, so the scripts     *)
(* write the same paths; an execution that is done leaves in every file the  *)
(* document of its own script, which is not the document of the other one;   *)
(* the light entry of the dark-mode document is the only entry of the other  *)
(* document, and its dark entry has the components of its light entry.       *)
C10_LastRunWins ==
  pc = "done" =>
    /\ SameTables
    /\ \A k \in 1..Len(Items) :
         /\ Holds(ContentsPath(Items[k].name), DocumentText(script, SourceItems(script)[k]))
         /\ \A other \in Scripts \ {script} :
              ~Holds(ContentsPath(Items[k].name), DocumentText(other, SourceItems(other)[k]))

\* create_color_sets.py is done right after a completed dark-mode execution
C10_Witness ==
  /\ pc = "done" /\ script = "create_color_sets"
  /\ prev.outcome = "done" /\ prev.script = "create_dark_mode_colors"
=============================================================================
